---- MODULE Spec2Model ----
(***************************************************************************)
(* BTC-15M-Oracle: the clock-synchronised scheduler (bot.py, run / main),  *)
(* the trading cycle (_trading_cycle) and the dashboard broadcaster        *)
(* (core/dashboard_server.py).                                             *)
(*                                                                         *)
(* Time is counted in whole seconds of local wall-clock time.  The two     *)
(* clock reads of _seconds_until_entry (one inside _next_boundary, one     *)
(* after it) fall in the same second.                                      *)
(***************************************************************************)
EXTENDS Integers, Sequences, FiniteSets, TLC

\* ------------------------------------------------------------------------
\* Program constants
\* ------------------------------------------------------------------------

\* bot.py:228  next_min = ((dt.minute // 15) + 1) * 15
GridMinutes == 15

\* bot.py:229  if next_min >= 60
MinutesPerHour == 60

SecondsPerMinute == 60

SecondsPerHour == MinutesPerHour * SecondsPerMinute

\* ------------------------------------------------------------------------
\* Bounds of the model
\* ------------------------------------------------------------------------

\* The clock sweep of SpecClock covers this many seconds from its start.
MaxSweep == 3700

\* The hours of the day at which the clock sweep starts.
SweepStartHours == {0, 10, 23}

\* (entry_lead_secs, entry_window_secs) pairs: the scenario of the
\* specification (13, 5), a one-minute lead as in the module docstring
\* (entries at :59/:14/:29/:44), a window that lasts until the boundary
\* and a window longer than the lead.
LeadWindowChoices == {<<13, 5>>, <<60, 30>>, <<20, 20>>, <<5, 13>>}

\* ------------------------------------------------------------------------
\* BoundaryClock: bot.py:224-240
\* ------------------------------------------------------------------------

\* dt.minute of datetime.fromtimestamp(t)
MinuteOf(t) == (t \div SecondsPerMinute) % MinutesPerHour

\* dt.replace(minute=0, second=0, microsecond=0)
HourStart(t) == t - (t % SecondsPerHour)

\* A slip of _next_boundary: the hour is not advanced on rollover.
NextBoundaryNoRollover(t) ==
    LET next_min == ((MinuteOf(t) \div GridMinutes) + 1) * GridMinutes
    IN  HourStart(t) + (next_min % MinutesPerHour) * SecondsPerMinute

\* _next_boundary with now = t
NextBoundary(t) ==
    LET next_min == ((MinuteOf(t) \div GridMinutes) + 1) * GridMinutes
    IN  IF next_min >= MinutesPerHour
        THEN HourStart(t) + SecondsPerHour
        ELSE HourStart(t) + next_min * SecondsPerMinute

\* _seconds_until_entry with now = t
SecondsUntilEntry(t, leadSecs) == NextBoundary(t) - leadSecs - t

\* A slip of _is_in_entry_window: the window placed before the entry
\* instant instead of after it.
IsInEntryWindowBefore(t, leadSecs, windowSecs) ==
    LET secs == SecondsUntilEntry(t, leadSecs)
    IN  0 <= secs /\ secs <= windowSecs

\* A slip of _is_in_entry_window: the entry instant itself excluded.
IsInEntryWindowStrict(t, leadSecs, windowSecs) ==
    LET secs == SecondsUntilEntry(t, leadSecs)
    IN  -windowSecs <= secs /\ secs < 0

\* _is_in_entry_window with now = t
IsInEntryWindow(t, leadSecs, windowSecs) ==
    LET secs == SecondsUntilEntry(t, leadSecs)
    IN  -windowSecs <= secs /\ secs <= 0

\* ------------------------------------------------------------------------
\* State
\* ------------------------------------------------------------------------

VARIABLES
    \* configuration and command line (bot.py:301-314)
    lead,           \* config.entry_lead_secs
    window,         \* config.entry_window_secs
    poll,           \* config.sleep_poll_secs
    maxCycles,      \* args.cycles (0 = unlimited)
    dashboard,      \* args.dashboard: self.dashboard is a DashboardServer
    enableArb,      \* args.arb: config.edge.enable_arb
    enableHedge,    \* args.hedge: config.edge.enable_hedge
    stopped,        \* history: handle_signal has run (SIGINT was delivered)
    \* clock
    now,            \* time.time()
    boundary,       \* the value _next_boundary returned at the last clock read
    inWindow,       \* the value _is_in_entry_window returned at the last read
    \* scheduler loop
    pc,             \* the position of the main coroutine
    running,        \* self.running
    traded,         \* self._traded_this_window
    cycleCount,     \* self._cycle_count
    completed,      \* completed (main, bounded loop)
    startsSinceOutside, \* history: cycle starts since the last tick that
                        \* observed the clock outside the entry window
    firedFor,       \* history: the boundary the last cycle was started for,
                    \* 0 before the first cycle
    \* fields read by the snapshot
    lastAnchor,     \* self._last_anchor
    lastConsensus,  \* self._last_consensus
    lastDecision,   \* self._last_decision
    \* the cycle in progress (locals of _trading_cycle and what it issued)
    tradeable,      \* tradeable (list of markets)
    market,         \* market (condition id of the selected market, 0 = unset)
    arbOpps,        \* the opportunities of arb_opps still to be handled
    arbScanned,     \* history: the list scan_arb returned in this cycle
    riskState,      \* the risk manager's state as this cycle has seen it:
                    \* what can_trade answered, "unknown" if not asked
    candles,        \* len(candles), 0 before the history is fetched
    analyzed,       \* history: the arguments of this cycle's calls of
                    \* strategy.analyze
    discovered,     \* history: what this cycle's calls of discover_markets
                    \* returned
    fault,          \* the exception raised in the cycle, "none" if none
    outcome,        \* how the try block of the cycle was left
    orders,         \* place_order calls issued in this cycle
    tradeLog,       \* trade_logger.log_trade entries written in this cycle
    pushes,         \* dashboard.broadcast calls of this cycle
    \* DashboardServer
    dashRunning,    \* self._running
    clients,        \* self.clients
    dashState,      \* self._state
    sent,           \* history: the document the last step delivered to a
                    \* connection (on connect or by a push), if it did
    bcSize,         \* the set size the iterator of broadcast's loop expects
    bcTodo,         \* the clients the iterator has still to yield
    bcDead,         \* dead (broadcast)
    bcSent,         \* history: clients whose send_json returned
    bcStart,        \* history: self.clients when the broadcast started
    bcAborted,      \* history: the broadcast loop raised
    \* PolymarketClient
    records,        \* what get_trade_records() returns: the trade records,
                    \* oldest first
    \* shutdown
    released,       \* the connections shutdown has released
    perfLog,        \* the records trade_logger.save_performance has written
    exc             \* an exception is propagating out of main's try block

cfgVars == <<lead, window, poll, maxCycles, dashboard, enableArb,
            enableHedge>>

sigVars == <<stopped>>

tradeVars == <<records>>

clockVars == <<now, boundary, inWindow>>

loopVars == <<running, traded, cycleCount, completed, startsSinceOutside,
             firedFor>>

botVars == <<lastAnchor, lastConsensus, lastDecision>>

\* what the cycle's collaborators returned and were given
inputVars == <<candles, analyzed, discovered>>

cycleVars == <<tradeable, market, arbOpps, fault, outcome, orders, tradeLog,
               pushes, riskState, arbScanned, inputVars>>

dashVars == <<dashRunning, clients, dashState>>

wireVars == <<sent>>

bcVars == <<bcSize, bcTodo, bcDead, bcSent, bcStart, bcAborted>>

downVars == <<released, perfLog, exc>>

vars == <<cfgVars, tradeVars, sigVars, clockVars, pc, loopVars, botVars,
          cycleVars, dashVars, wireVars, bcVars, downVars>>

\* Observer connections are numbered 1 .. MaxConns.
MaxConns == 2

Conns == 1 .. MaxConns

\* self._last_anchor = None
NoAnchor == 0

\* self._last_decision = None
NoDecision == [cycle |-> 0, should_trade |-> FALSE, direction |-> "hold"]

\* self._state = {}
NoState == [cycle |-> 0, oracle |-> 0, anchor |-> NoAnchor,
            strategy |-> NoDecision, risk |-> "unknown",
            positions |-> [open |-> <<>>, closed |-> <<>>]]

\* A document delivered to connection ws.
Msg(ws, doc) == [to |-> ws, doc |-> doc]

\* The step delivered nothing.
NoMessage == Msg(0, NoState)

\* The step delivers no document.
Quiet == sent' = NoMessage

\* No cycle is in progress: the locals of _trading_cycle and of broadcast
\* do not exist, and nothing has been issued.
NoCycle ==
    /\ tradeable = <<>>
    /\ market = 0
    /\ arbOpps = <<>>
    /\ fault = "none"
    /\ outcome = "none"
    /\ orders = <<>>
    /\ tradeLog = <<>>
    /\ pushes = 0
    /\ riskState = "unknown"
    /\ arbScanned = <<>>
    /\ candles = 0
    /\ analyzed = <<>>
    /\ discovered = <<>>
    /\ bcSize = 0
    /\ bcTodo = {}
    /\ bcDead = {}
    /\ bcSent = {}
    /\ bcStart = {}
    /\ bcAborted = FALSE

\* _trading_cycle returns: its locals and those of broadcast are gone.
ClearCycle ==
    /\ tradeable' = <<>>
    /\ market' = 0
    /\ arbOpps' = <<>>
    /\ fault' = "none"
    /\ outcome' = "none"
    /\ orders' = <<>>
    /\ tradeLog' = <<>>
    /\ pushes' = 0
    /\ riskState' = "unknown"
    /\ arbScanned' = <<>>
    /\ candles' = 0
    /\ analyzed' = <<>>
    /\ discovered' = <<>>
    /\ bcSize' = 0
    /\ bcTodo' = {}
    /\ bcDead' = {}
    /\ bcSent' = {}
    /\ bcStart' = {}
    /\ bcAborted' = FALSE

\* BTCPredictionBot.__init__ and DashboardServer.__init__ but for the
\* stored snapshot
ConstructedBot ==
    /\ stopped = FALSE
    /\ running = FALSE
    /\ traded = FALSE
    /\ cycleCount = 0
    /\ completed = 0
    /\ startsSinceOutside = 0
    /\ firedFor = 0
    /\ lastAnchor = NoAnchor
    /\ lastConsensus = 0
    /\ lastDecision = NoDecision
    /\ NoCycle
    /\ dashRunning = FALSE
    /\ clients = {}
    /\ sent = NoMessage
    /\ released = {}
    /\ perfLog = <<>>
    /\ exc = FALSE

\* BTCPredictionBot.__init__ and DashboardServer.__init__
Constructed == ConstructedBot /\ dashState = NoState

\* ------------------------------------------------------------------------
\* SpecClock: the clock functions applied at every second of a sweep
\* ------------------------------------------------------------------------

ClockInit ==
    /\ now \in {h * SecondsPerHour : h \in SweepStartHours}
    /\ \E lw \in LeadWindowChoices : lead = lw[1] /\ window = lw[2]
    /\ boundary = NextBoundary(now)
    /\ inWindow = IsInEntryWindow(now, lead, window)
    /\ poll = 1
    /\ maxCycles = 0
    /\ dashboard = FALSE
    /\ enableArb = FALSE
    /\ enableHedge = FALSE
    /\ records = <<>>
    /\ pc = "clock"
    /\ Constructed

\* One second passes and the clock functions are evaluated again.
ClockRead ==
    /\ pc = "clock"
    /\ \E h \in SweepStartHours : now < h * SecondsPerHour + MaxSweep
                                  /\ now >= h * SecondsPerHour
    /\ now' = now + 1
    /\ boundary' = NextBoundary(now')
    /\ inWindow' = IsInEntryWindow(now', lead, window)
    /\ Quiet
    /\ UNCHANGED <<cfgVars, tradeVars, sigVars, pc, loopVars, botVars, cycleVars, dashVars,
                   bcVars, downVars>>

ClockNext == ClockRead

SpecClock == ClockInit /\ [][ClockNext]_vars

\* ------------------------------------------------------------------------
\* Bounds and inputs of the scheduler model
\* ------------------------------------------------------------------------

\* The clock stops the model at this time.
MaxClock == 1800

\* The times at which the process is started.
StartTimes == {0}

\* (entry_lead_secs, entry_window_secs, sleep_poll_secs): the window opens
\* at 450, 1350, ... seconds; it holds three ticks, or (the poll interval
\* coarser than the window) one
Configs == {[lead |-> 450, window |-> 300, poll |-> 150],
            [lead |-> 450, window |-> 100, poll |-> 150]}

\* args.cycles ranges over 0 .. MaxCyclesArg.
MaxCyclesArg == 2

\* How long a cycle may take, in seconds.
CycleDurations == {0, 150, 900}

\* bot.py:77  if len(candles) < 30
MinCandles == 30

\* bot.py:76  get_candles("15m", limit=100)
CandleLimit == 100

\* The lengths of the history get_candles may return.
CandleCounts == {MinCandles - 1, MinCandles, CandleLimit}

\* The decisions strategy.analyze may return.
Decisions == {[should_trade |-> TRUE, direction |-> "up"],
              [should_trade |-> TRUE, direction |-> "down"],
              [should_trade |-> FALSE, direction |-> "hold"]}

\* The risk manager (its code is not among the sources): can_trade()
\* answers (True, ...) or (False, reason), the reason naming the limit that
\* is hit (daily limits, cooldowns), and get_status() reports the same
\* state (daily_trades against max_daily_trades, cooldown_active).
RiskOk == "ok"

RiskAnswers == {RiskOk, "daily_limit", "cooldown"}

\* bot.py:106  config.polymarket.min_liquidity_usd
MinLiquidity == 10

Mkt(id, liq, tr) == [id |-> id, liquidity |-> liq, is_tradeable |-> tr]

\* The lists discover_markets may return: none; none that qualifies (too
\* little liquidity, not tradeable); two at the threshold with equal
\* liquidity; a mixed list.
MarketLists == {<<>>,
                <<Mkt(1, 5, TRUE), Mkt(3, 30, FALSE)>>,
                <<Mkt(2, MinLiquidity, TRUE), Mkt(4, MinLiquidity, TRUE)>>,
                <<Mkt(1, 5, TRUE), Mkt(2, 20, TRUE), Mkt(3, 30, FALSE),
                  Mkt(4, 40, TRUE)>>}

\* A trade record: trade_id (its position in the list) and is_resolved.
Rec(id, resolved) == [id |-> id, is_resolved |-> resolved]

\* The trade records of the scheduler model.  They are kept by
\* PolymarketClient, whose code is not among the sources; the scheduler
\* model holds them fixed.
SampleRecords == <<Rec(1, TRUE), Rec(2, FALSE), Rec(3, TRUE)>>

\* The lists of opportunities scan_arb may return, each opportunity given
\* by its market_condition_id.
ArbOppLists == {<<>>, <<2>>, <<9, 4>>}

\* ------------------------------------------------------------------------
\* Helpers of _trading_cycle
\* ------------------------------------------------------------------------

\* [m for m in markets if m.is_tradeable and m.liquidity >= min_liquidity]
RECURSIVE Tradeable(_)
Tradeable(ms) ==
    IF ms = <<>> THEN <<>>
    ELSE LET m == Head(ms)
         IN  IF m.is_tradeable /\ m.liquidity >= MinLiquidity
             THEN <<m>> \o Tradeable(Tail(ms))
             ELSE Tradeable(Tail(ms))

\* A slip of the selection: the first candidate is taken.
FirstMarket(ms) == ms[1]

\* max(tradeable, key=lambda m: m.liquidity): the first market of maximal
\* liquidity
MaxByLiquidity(ms) ==
    LET i == CHOOSE k \in 1 .. Len(ms) :
                 /\ \A j \in 1 .. Len(ms) : ms[j].liquidity <= ms[k].liquidity
                 /\ \A j \in 1 .. (k - 1) : ms[j].liquidity < ms[k].liquidity
    IN  ms[i]

\* A slip of the lookup: the opportunity's market is taken to be there.
HasMarketAlways(ms, id) == TRUE

\* next((m for m in tradeable if m.condition_id == id), None) is not None
HasMarket(ms, id) == \E k \in 1 .. Len(ms) : ms[k].id = id

\* dashboard_server.py:126  closed_pos[-50:]
ClosedCap == 50

\* dashboard_server.py:107-110: the entries of the unresolved records
RECURSIVE OpenPos(_)
OpenPos(rs) ==
    IF rs = <<>> THEN <<>>
    ELSE (IF ~Head(rs).is_resolved THEN <<[id |-> Head(rs).id]>> ELSE <<>>)
         \o OpenPos(Tail(rs))

\* dashboard_server.py:113-116: the entries of the resolved records
RECURSIVE ClosedPos(_)
ClosedPos(rs) ==
    IF rs = <<>> THEN <<>>
    ELSE (IF Head(rs).is_resolved THEN <<[id |-> Head(rs).id]>> ELSE <<>>)
         \o ClosedPos(Tail(rs))

\* A slip of the cap: the slice taken from the front, seq[:n].
FirstN(seq, n) ==
    IF Len(seq) <= n THEN seq ELSE SubSeq(seq, 1, n)

\* seq[-n:] for n > 0
LastN(seq, n) ==
    IF Len(seq) <= n THEN seq ELSE SubSeq(seq, Len(seq) - n + 1, Len(seq))

\* dashboard_server.py:126  "positions": {"open": ..., "closed": ...}
Positions(rs) ==
    [open |-> OpenPos(rs), closed |-> LastN(ClosedPos(rs), ClosedCap)]

\* A slip of build_dashboard_state: the risk section is left at its
\* defaults.
BuildDashboardStateNoRisk(cycle, consensus, anchor, decision, risk, rs) ==
    [cycle |-> cycle, oracle |-> consensus, anchor |-> anchor,
     strategy |-> decision, risk |-> "unknown", positions |-> Positions(rs)]

\* build_dashboard_state: the sections are read from the arguments, the
\* risk section from risk_manager.get_status() (dashboard_server.py:98, 125)
\* and the positions from polymarket_client.get_trade_records() (100)
BuildDashboardState(cycle, consensus, anchor, decision, risk, rs) ==
    [cycle |-> cycle, oracle |-> consensus, anchor |-> anchor,
     strategy |-> decision, risk |-> risk, positions |-> Positions(rs)]

\* A slip of broadcast: the stored document is updated in place, field by
\* field, and the update stops after the cycle number.
StoreSnapshotPartly(old, state) ==
    IF old = NoState THEN state ELSE [old EXCEPT !.cycle = state.cycle]

\* dashboard_server.py:70  self._state = state
StoreSnapshot(old, state) == state

\* dashboard_server.py:48-49  _handle_state: the document GET /state serves
HandleState == dashState

\* The positions of the main coroutine inside _trading_cycle.
BodySteps == {"capture_window_open", "get_price", "log_oracle",
              "get_candles", "analyze", "log_strategy", "can_trade",
              "discover_markets", "scan_arb", "arb_loop", "arb_up",
              "arb_down", "arb_log", "get_trade_records", "check_hedge"}

CycleSteps == BodySteps \cup {"except", "finally", "build", "broadcast",
                              "return"}

\* The steps of the try block that call a collaborator or the logger.
FallibleSteps == BodySteps \ {"arb_loop", "check_hedge"}

\* A slip of the failure boundary: the fault of a step is swallowed where
\* it happens and the cycle goes on with the hedge pass.
OnCycleFaultContinues == "get_trade_records"

\* A slip of the failure boundary: the exception leaves _trading_cycle and
\* reaches main's finally clause.
OnCycleFaultEscapes == "shutdown"

\* bot.py:201  except Exception as e: where an exception raised in the try
\* block continues
OnCycleFault == "except"

\* A slip of the guard: the flag is not consulted.
ShouldFireEveryTick(inWin, flag) == inWin

\* bot.py:271-272 (run) and bot.py:329-330 (main): a cycle is started
ShouldFire(inWin, flag) == inWin /\ ~flag

\* A slip of the cycle: the counter is not advanced when the cycle starts.
CountCycleNever(n) == n

\* bot.py:58  self._cycle_count += 1, the first statement of the cycle
CountCycle(n) == n + 1

\* A slip of the loop: the flag is left clear after a cycle that faulted,
\* so the cycle is retried at the next tick in the window.
TradedAfterCycleUnlessFaulted(faulted) == ~faulted

\* bot.py:276 and bot.py:332: _traded_this_window = True, whatever the
\* cycle did
TradedAfterCycle(faulted) == TRUE

\* A slip of the loop: the cycle is spawned as a task instead of awaited,
\* so the loop goes on polling while the cycle runs.
FirePositionsTask == {"loop"} \cup CycleSteps

\* bot.py:275 and bot.py:331: await self._trading_cycle() suspends the loop
\* until the cycle has returned, so a cycle is only ever started from the
\* loop itself.
FirePositions == {"loop"}

\* A slip of the history check: any history is passed on to the strategy.
EnoughCandlesAlways(n) == TRUE

\* bot.py:77  if len(candles) < 30: return
EnoughCandles(n) == ~(n < MinCandles)

\* A slip of the HOLD check: the cycle goes on whatever the decision says.
ProceedsToRiskAlways(decision) == TRUE

\* bot.py:94  if not decision.should_trade: return
ProceedsToRisk(decision) == decision.should_trade

\* A slip of the bounded loop: the count of completed cycles is not
\* consulted.
LoopContinuesUncounted == running

\* bot.py:270 (run) and bot.py:328 (main): the loop condition
LoopContinues ==
    IF maxCycles > 0 THEN completed < maxCycles /\ running ELSE running

\* ------------------------------------------------------------------------
\* Init
\* ------------------------------------------------------------------------

Init ==
    /\ \E c \in Configs : lead = c.lead /\ window = c.window /\ poll = c.poll
    /\ maxCycles \in 0 .. MaxCyclesArg
    /\ dashboard \in BOOLEAN
    \* the poll interval coarser than the window is explored without the
    \* dashboard: the scheduler does not read the dashboard
    /\ poll > window => ~dashboard
    \* the four settings of --arb and --hedge are explored without the
    \* dashboard; the dashboard does not read them outside the snapshot's
    \* config section
    /\ enableArb \in BOOLEAN
    /\ enableHedge \in BOOLEAN
    /\ dashboard => (enableArb /\ enableHedge)
    /\ now \in StartTimes
    /\ boundary = NextBoundary(now)
    /\ inWindow = FALSE
    /\ records = SampleRecords
    /\ pc = "main"
    /\ Constructed

\* ------------------------------------------------------------------------
\* main and run: start-up (bot.py:250-268, 321-327)
\* ------------------------------------------------------------------------

\* main with args.cycles > 0: the bounded loop; the dashboard server is
\* not started on this path.
StartBounded ==
    /\ pc = "main"
    /\ maxCycles > 0
    /\ running' = TRUE
    /\ pc' = "loop"
    /\ Quiet
    /\ UNCHANGED <<cfgVars, tradeVars, sigVars, clockVars, traded, cycleCount, completed,
                   startsSinceOutside, firedFor, botVars, cycleVars, dashVars, bcVars,
                   downVars>>

\* run: the dashboard server, if any, is started; then the loop is entered.
StartRun ==
    /\ pc = "main"
    /\ maxCycles = 0
    /\ dashRunning' = dashboard
    /\ running' = TRUE
    /\ pc' = "loop"
    /\ Quiet
    /\ UNCHANGED <<cfgVars, tradeVars, sigVars, clockVars, traded, cycleCount, completed,
                   startsSinceOutside, firedFor, botVars, cycleVars, clients,
                   dashState, bcVars, downVars>>

\* run: dashboard.start() raises (the port cannot be bound); the exception
\* leaves run and main's finally clause runs shutdown.
StartRunFails ==
    /\ pc = "main"
    /\ maxCycles = 0
    /\ dashboard
    /\ exc' = TRUE
    /\ pc' = "shutdown"
    /\ Quiet
    /\ UNCHANGED <<cfgVars, tradeVars, sigVars, clockVars, loopVars, botVars, cycleVars, dashVars,
                   bcVars, released, perfLog>>

\* handle_signal (bot.py:316-319): SIGINT calls bot.stop().  The handler is
\* installed before main's try block, so the signal may arrive before
\* self.running = True (bot.py:267, 324) as well as after it.  A signal
\* during shutdown, or a repeated one while running is already False,
\* changes nothing the program reads.  The early signal is explored for
\* the runs without a dashboard, which have the same start-up window.
StopSignal ==
    /\ pc \in {"main", "loop"} \cup CycleSteps
    /\ running \/ ~stopped
    /\ pc = "main" => ~dashboard
    /\ stopped' = TRUE
    /\ running' = FALSE
    /\ Quiet
    /\ UNCHANGED <<cfgVars, tradeVars, clockVars, pc, traded, cycleCount, completed,
                   startsSinceOutside, firedFor, botVars, cycleVars, dashVars, bcVars,
                   downVars>>

\* ------------------------------------------------------------------------
\* The scheduler loop (bot.py:270-281 and 328-338)
\* ------------------------------------------------------------------------

\* A tick outside the entry window: the flag is cleared, then the loop
\* sleeps for the poll interval.
TickOutside ==
    /\ pc = "loop"
    /\ LoopContinues
    /\ ~IsInEntryWindow(now, lead, window)
    /\ now + poll <= MaxClock
    /\ boundary' = NextBoundary(now)
    /\ inWindow' = FALSE
    /\ traded' = FALSE
    /\ startsSinceOutside' = 0
    /\ now' = now + poll
    /\ Quiet
    /\ UNCHANGED <<cfgVars, tradeVars, sigVars, pc, running, cycleCount, completed,
                   firedFor, botVars,
                   cycleVars, dashVars, bcVars, downVars>>

\* A tick inside the entry window with the flag set: nothing but the sleep.
TickSkip ==
    /\ pc = "loop"
    /\ LoopContinues
    /\ IsInEntryWindow(now, lead, window)
    /\ ~ShouldFire(IsInEntryWindow(now, lead, window), traded)
    /\ now + poll <= MaxClock
    /\ boundary' = NextBoundary(now)
    /\ inWindow' = TRUE
    /\ now' = now + poll
    /\ Quiet
    /\ UNCHANGED <<cfgVars, tradeVars, sigVars, pc, loopVars, botVars, cycleVars, dashVars,
                   bcVars, downVars>>

\* A tick inside the entry window with the flag clear: _trading_cycle is
\* called; it counts the cycle (bot.py:58) and enters its try block.
TickFire ==
    /\ pc \in FirePositions
    /\ LoopContinues
    /\ ShouldFire(IsInEntryWindow(now, lead, window), traded)
    /\ boundary' = NextBoundary(now)
    /\ inWindow' = TRUE
    /\ cycleCount' = CountCycle(cycleCount)
    /\ startsSinceOutside' = startsSinceOutside + 1
    /\ firedFor' = NextBoundary(now)
    /\ pc' = "capture_window_open"
    /\ Quiet
    /\ UNCHANGED <<cfgVars, tradeVars, sigVars, now, running, traded, completed, botVars,
                   cycleVars, dashVars, bcVars, downVars>>

\* _trading_cycle has returned: the flag is set, the bounded loop counts
\* the cycle, and the loop sleeps.  The time the cycle took passes here.
CycleReturn ==
    /\ pc = "return"
    /\ traded' = TradedAfterCycle(fault # "none")
    /\ completed' = IF maxCycles > 0 THEN completed + 1 ELSE completed
    /\ \E d \in CycleDurations :
          /\ now + d + poll <= MaxClock
          /\ now' = now + d + poll
    /\ pc' = "loop"
    /\ ClearCycle
    /\ Quiet
    /\ UNCHANGED <<cfgVars, tradeVars, sigVars, boundary, inWindow, running, cycleCount,
                   startsSinceOutside, firedFor, botVars, dashVars, downVars>>

\* The loop condition is false: main's finally clause runs shutdown.
LoopExit ==
    /\ pc = "loop"
    /\ ~LoopContinues
    /\ pc' = "shutdown"
    /\ Quiet
    /\ UNCHANGED <<cfgVars, tradeVars, sigVars, clockVars, loopVars, botVars, cycleVars, dashVars,
                   bcVars, downVars>>

\* ------------------------------------------------------------------------
\* _trading_cycle: the try block (bot.py:60-199)
\* ------------------------------------------------------------------------

\* The variables a step of the cycle leaves alone besides those it names.
outsideCycle == <<cfgVars, tradeVars, sigVars, clockVars, loopVars, dashVars, bcVars, downVars>>

\* A collaborator or logger call of the try block raises.
StepRaises ==
    /\ pc \in FallibleSteps
    /\ fault' = "collaborator"
    /\ outcome' = "error"
    /\ pc' = OnCycleFault
    /\ Quiet
    /\ UNCHANGED <<outsideCycle, botVars, tradeable, market, arbOpps, orders,
                   tradeLog, pushes, riskState,
                   arbScanned, inputVars>>

\* 1. anchor = await self.oracle.capture_window_open(); an Anchor and None
\* are stored alike, as the value this cycle captured
CaptureWindowOpen ==
    /\ pc = "capture_window_open"
    /\ lastAnchor' = cycleCount
    /\ pc' = "get_price"
    /\ Quiet
    /\ UNCHANGED <<outsideCycle, lastConsensus, lastDecision, cycleVars>>

\* 2. consensus = await self.oracle.get_price()
GetPrice ==
    /\ pc = "get_price"
    /\ lastConsensus' = cycleCount
    /\ pc' = "log_oracle"
    /\ Quiet
    /\ UNCHANGED <<outsideCycle, lastAnchor, lastDecision, cycleVars>>

\* self.trade_logger.log_oracle(...)
LogOracle ==
    /\ pc = "log_oracle"
    /\ pc' = "get_candles"
    /\ Quiet
    /\ UNCHANGED <<outsideCycle, botVars, cycleVars>>

\* 3. candles = await self.oracle.get_candles(...); fewer than 30: return
GetCandles ==
    /\ pc = "get_candles"
    /\ \E n \in CandleCounts :
          /\ candles' = n
          /\ IF EnoughCandles(n)
             THEN outcome' = outcome /\ pc' = "analyze"
             ELSE outcome' = "skipped" /\ pc' = "finally"
    /\ Quiet
    /\ UNCHANGED <<outsideCycle, botVars, tradeable, market, arbOpps, fault,
                   orders, tradeLog, pushes, riskState,
                   arbScanned, analyzed, discovered>>

\* 4. decision = self.strategy.analyze(...)
Analyze ==
    /\ pc = "analyze"
    /\ \E d \in Decisions :
          lastDecision' = [cycle |-> cycleCount,
                           should_trade |-> d.should_trade,
                           direction |-> d.direction]
    /\ analyzed' = Append(analyzed, [candles |-> candles,
                                     price |-> lastConsensus,
                                     open_price |-> lastAnchor])
    /\ pc' = "log_strategy"
    /\ Quiet
    /\ UNCHANGED <<outsideCycle, lastAnchor, lastConsensus, tradeable, market,
                   arbOpps, fault, outcome, orders, tradeLog, pushes,
                   riskState, arbScanned, candles, discovered>>

\* self.trade_logger.log_strategy(...); if not decision.should_trade: return
LogStrategy ==
    /\ pc = "log_strategy"
    /\ IF ProceedsToRisk(lastDecision)
       THEN outcome' = outcome /\ pc' = "can_trade"
       ELSE outcome' = "hold" /\ pc' = "finally"
    /\ Quiet
    /\ UNCHANGED <<outsideCycle, botVars, tradeable, market, arbOpps, fault,
                   orders, tradeLog, pushes, riskState,
                   arbScanned, inputVars>>

\* 5. can_trade, reason = self.risk_manager.can_trade()
CanTrade ==
    /\ pc = "can_trade"
    /\ \E answer \in RiskAnswers :
          /\ riskState' = answer
          /\ IF answer = RiskOk
             THEN outcome' = outcome /\ pc' = "discover_markets"
             ELSE outcome' = "blocked" /\ pc' = "finally"
    /\ Quiet
    /\ UNCHANGED <<outsideCycle, botVars, tradeable, market, arbOpps, fault,
                   orders, tradeLog, pushes, arbScanned, inputVars>>

\* 6. markets = await self.polymarket.discover_markets(); the tradeable
\* ones are kept and the one of maximal liquidity is selected
DiscoverMarkets ==
    /\ pc = "discover_markets"
    /\ \E markets \in MarketLists :
          /\ discovered' = Append(discovered, markets)
          /\ tradeable' = Tradeable(markets)
          /\ IF tradeable' = <<>>
             THEN outcome' = "no_market" /\ market' = market
                  /\ pc' = "finally"
             ELSE outcome' = outcome
                  /\ market' = MaxByLiquidity(tradeable').id
                  /\ pc' = "scan_arb"
    /\ Quiet
    /\ UNCHANGED <<outsideCycle, botVars, arbOpps, fault, orders, tradeLog,
                   pushes, riskState, arbScanned, candles, analyzed>>

\* 6a. arb_opps = self.edge.scan_arb(tradeable)
ScanArb ==
    /\ pc = "scan_arb"
    /\ arbOpps' \in ArbOppLists
    /\ pc' = "arb_loop"
    /\ arbScanned' = arbOpps'
    /\ Quiet
    /\ UNCHANGED <<outsideCycle, botVars, tradeable, market, fault, outcome,
                   orders, tradeLog, pushes, riskState, inputVars>>

\* for opp in arb_opps: the opportunity's market is looked up
ArbLoop ==
    /\ pc = "arb_loop"
    /\ IF arbOpps = <<>>
       THEN arbOpps' = arbOpps /\ pc' = "get_trade_records"
       ELSE IF HasMarket(tradeable, Head(arbOpps))
            THEN arbOpps' = arbOpps /\ pc' = "arb_up"
            ELSE arbOpps' = Tail(arbOpps) /\ pc' = "arb_loop"
    /\ Quiet
    /\ UNCHANGED <<outsideCycle, botVars, tradeable, market, fault, outcome,
                   orders, tradeLog, pushes, riskState,
                   arbScanned, inputVars>>

\* await self.polymarket.place_order(market=arb_market, direction="up", ...)
ArbUp ==
    /\ pc = "arb_up"
    /\ orders' = Append(orders, [kind |-> "arb", market |-> Head(arbOpps),
                                 direction |-> "up"])
    /\ pc' = "arb_down"
    /\ Quiet
    /\ UNCHANGED <<outsideCycle, botVars, tradeable, market, arbOpps, fault,
                   outcome, tradeLog, pushes, riskState,
                   arbScanned, inputVars>>

\* await self.polymarket.place_order(market=arb_market, direction="down", ...)
ArbDown ==
    /\ pc = "arb_down"
    /\ orders' = Append(orders, [kind |-> "arb", market |-> Head(arbOpps),
                                 direction |-> "down"])
    /\ pc' = "arb_log"
    /\ Quiet
    /\ UNCHANGED <<outsideCycle, botVars, tradeable, market, arbOpps, fault,
                   outcome, tradeLog, pushes, riskState,
                   arbScanned, inputVars>>

\* self.trade_logger.log_trade({"type": "arb", ...})
ArbLog ==
    /\ pc = "arb_log"
    /\ tradeLog' = Append(tradeLog, [type |-> "arb",
                                     market |-> Head(arbOpps)])
    /\ arbOpps' = Tail(arbOpps)
    /\ pc' = "arb_loop"
    /\ Quiet
    /\ UNCHANGED <<outsideCycle, botVars, tradeable, market, fault, outcome,
                   orders, pushes, riskState,
                   arbScanned, inputVars>>

\* 6b. open_trades = self.polymarket.get_trade_records()
GetTradeRecords ==
    /\ pc = "get_trade_records"
    /\ pc' = "check_hedge"
    /\ Quiet
    /\ UNCHANGED <<outsideCycle, botVars, cycleVars>>

\* hedges = self.edge.check_hedge(..., current_direction=direction, ...):
\* the local variable direction is assigned at bot.py:163 only, after this
\* read of it at bot.py:139, so evaluating the argument raises
\* UnboundLocalError.  The hedge loop, the directional order, the
\* resolution check and save_performance (bot.py:143-199) are not reached.
CheckHedge ==
    /\ pc = "check_hedge"
    /\ fault' = "UnboundLocalError"
    /\ outcome' = "error"
    /\ pc' = OnCycleFault
    /\ Quiet
    /\ UNCHANGED <<outsideCycle, botVars, tradeable, market, arbOpps, orders,
                   tradeLog, pushes, riskState,
                   arbScanned, inputVars>>

\* ------------------------------------------------------------------------
\* _trading_cycle: except and finally (bot.py:201-220)
\* ------------------------------------------------------------------------

\* except Exception as e: logger.error(...)
Except ==
    /\ pc = "except"
    /\ pc' = "finally"
    /\ Quiet
    /\ UNCHANGED <<outsideCycle, botVars, cycleVars>>

\* finally: if self.dashboard and self.dashboard.is_running
\* The try body has ended, by a return or by an exception: nothing after
\* this point reads its locals or what it recorded for this cycle.
Finally ==
    /\ pc = "finally"
    /\ pc' = IF dashboard /\ dashRunning THEN "build" ELSE "return"
    /\ tradeable' = <<>>
    /\ market' = 0
    /\ arbOpps' = <<>>
    /\ outcome' = "none"
    /\ orders' = <<>>
    /\ tradeLog' = <<>>
    /\ arbScanned' = <<>>
    /\ candles' = 0
    /\ analyzed' = <<>>
    /\ discovered' = <<>>
    /\ Quiet
    /\ UNCHANGED <<outsideCycle, botVars, fault, pushes, riskState>>

\* state = build_dashboard_state(...) raises (a collaborator's get_stats,
\* get_status or get_trade_records fails); the exception is caught and
\* logged at bot.py:219-220.
BuildRaises ==
    /\ pc = "build"
    /\ pc' = "return"
    /\ Quiet
    /\ UNCHANGED <<outsideCycle, botVars, cycleVars>>

\* state = build_dashboard_state(...); await self.dashboard.broadcast(state)
\* up to the creation of the loop's iterator (dashboard_server.py:70-72)
BroadcastBegin ==
    /\ pc = "build"
    /\ dashState' = StoreSnapshot(dashState,
                         BuildDashboardState(cycleCount, lastConsensus,
                                             lastAnchor, lastDecision,
                                             riskState, records))
    /\ pushes' = pushes + 1
    /\ bcDead' = {}
    /\ bcSent' = {}
    /\ bcStart' = clients
    /\ bcSize' = Cardinality(clients)
    /\ bcTodo' = clients
    /\ bcAborted' = FALSE
    /\ pc' = "broadcast"
    /\ Quiet
    /\ UNCHANGED <<cfgVars, tradeVars, sigVars, clockVars, loopVars, botVars, tradeable, market,
                   arbOpps, fault, outcome, orders, tradeLog,
                   riskState, arbScanned, inputVars, dashRunning,
                   clients, downVars>>

\* for ws in self.clients: the iterator yields a client and
\* await ws.send_json(state) returns or raises (dashboard_server.py:72-76)
BroadcastSend ==
    /\ pc = "broadcast"
    /\ Cardinality(clients) = bcSize
    /\ \E ws \in bcTodo :
          /\ bcTodo' = bcTodo \ {ws}
          /\ \E delivered \in BOOLEAN :
                IF delivered
                THEN /\ bcSent' = bcSent \cup {ws} /\ bcDead' = bcDead
                     /\ sent' = Msg(ws, dashState)
                ELSE /\ bcDead' = bcDead \cup {ws} /\ bcSent' = bcSent
                     /\ sent' = NoMessage
    /\ UNCHANGED <<cfgVars, tradeVars, sigVars, clockVars, pc, loopVars, botVars, cycleVars,
                   dashVars, bcSize, bcStart, bcAborted, downVars>>

\* The iterator is exhausted: self.clients -= dead (dashboard_server.py:77);
\* the iterator is gone with the loop.
BroadcastEnd ==
    /\ pc = "broadcast"
    /\ Cardinality(clients) = bcSize
    /\ bcTodo = {}
    /\ clients' = clients \ bcDead
    /\ bcSize' = 0
    /\ pc' = "return"
    /\ Quiet
    /\ UNCHANGED <<cfgVars, tradeVars, sigVars, clockVars, loopVars, botVars, cycleVars,
                   dashRunning, dashState, bcTodo, bcDead, bcSent, bcStart,
                   bcAborted, downVars>>

\* The set changed size while the loop was suspended in a send: the
\* iterator raises RuntimeError (Set changed size during iteration), which
\* leaves broadcast before line 77 and is caught at bot.py:219-220.  The
\* iterator is gone with the loop.
BroadcastAbort ==
    /\ pc = "broadcast"
    /\ Cardinality(clients) # bcSize
    /\ bcAborted' = TRUE
    /\ bcSize' = 0
    /\ bcTodo' = {}
    /\ pc' = "return"
    /\ Quiet
    /\ UNCHANGED <<cfgVars, tradeVars, sigVars, clockVars, loopVars, botVars, cycleVars,
                   dashVars, bcDead, bcSent, bcStart, downVars>>

\* ------------------------------------------------------------------------
\* DashboardServer._handle_ws (dashboard_server.py:51-67)
\* ------------------------------------------------------------------------

\* The positions at which the main coroutine is suspended in an await.
AwaitSteps == {"loop", "capture_window_open", "get_price", "get_candles",
               "discover_markets", "arb_up", "arb_down", "broadcast",
               "oracle_close", "polymarket_close", "dashboard_stop"}

\* A slip of _handle_ws: nothing is sent on connect.
OnConnectNothing(state) == NoState

\* dashboard_server.py:57-58  if self._state: await ws.send_json(self._state)
\* The document the new connection is sent, NoState (the empty document is
\* falsy) standing for none.
OnConnect(state) == IF state # NoState THEN state ELSE NoState

\* Other coroutines run only while the main coroutine is suspended; inside
\* broadcast that is during a send_json.
HandlersMayRun ==
    /\ pc \in AwaitSteps
    /\ pc = "broadcast" => (bcSent \cup bcDead) # {}

\* An observer connects: ws = web.WebSocketResponse() is a new object
\* (dashboard_server.py:52), so it is none of the connections the broadcast
\* in progress has met; self.clients.add(ws); the stored snapshot, if any,
\* is sent; the handler then waits for messages.  During a broadcast the
\* iterator may or may not come to yield the new element.
WsConnect ==
    /\ dashRunning
    /\ HandlersMayRun
    /\ \E ws \in Conns \ (clients \cup bcStart \cup bcSent \cup bcDead) :
          /\ clients' = clients \cup {ws}
          /\ sent' = IF OnConnect(dashState) = NoState THEN NoMessage
                     ELSE Msg(ws, OnConnect(dashState))
          /\ IF pc = "broadcast"
             THEN bcTodo' \in {bcTodo, bcTodo \cup {ws}}
             ELSE bcTodo' = bcTodo
    /\ UNCHANGED <<cfgVars, tradeVars, sigVars, clockVars, pc, loopVars, botVars, cycleVars,
                   dashRunning, dashState, bcSize, bcDead, bcSent, bcStart,
                   bcAborted, downVars>>

\* The connection closes or fails: the message loop ends and the finally
\* clause runs self.clients.discard(ws).
WsDisconnect ==
    /\ HandlersMayRun
    /\ \E ws \in clients :
          /\ clients' = clients \ {ws}
          /\ bcTodo' = bcTodo \ {ws}
    /\ Quiet
    /\ UNCHANGED <<cfgVars, tradeVars, sigVars, clockVars, pc, loopVars, botVars, cycleVars,
                   dashRunning, dashState, bcSize, bcDead, bcSent, bcStart,
                   bcAborted, downVars>>

\* ------------------------------------------------------------------------
\* shutdown (bot.py:287-298) and DashboardServer.stop
\* ------------------------------------------------------------------------

ShutdownSteps == {"oracle_close", "polymarket_close", "dashboard_stop",
                  "save_final"}

\* self.stop()
ShutdownBegin ==
    /\ pc = "shutdown"
    /\ running' = FALSE
    /\ pc' = "oracle_close"
    /\ Quiet
    /\ UNCHANGED <<cfgVars, tradeVars, sigVars, clockVars, traded, cycleCount, completed,
                   startsSinceOutside, firedFor, botVars, cycleVars, dashVars, bcVars,
                   downVars>>

\* A call of shutdown raises: the exception leaves shutdown and main.
ShutdownRaises ==
    /\ pc \in ShutdownSteps
    /\ pc' = "failed"
    /\ Quiet
    /\ UNCHANGED <<cfgVars, tradeVars, sigVars, clockVars, loopVars, botVars, cycleVars, dashVars,
                   bcVars, downVars>>

\* await self.oracle.close()
OracleClose ==
    /\ pc = "oracle_close"
    /\ released' = released \cup {"oracle"}
    /\ pc' = "polymarket_close"
    /\ Quiet
    /\ UNCHANGED <<cfgVars, tradeVars, sigVars, clockVars, loopVars, botVars, cycleVars, dashVars,
                   bcVars, perfLog, exc>>

\* await self.polymarket.close(); if self.dashboard: ...
PolymarketClose ==
    /\ pc = "polymarket_close"
    /\ released' = released \cup {"polymarket"}
    /\ pc' = IF dashboard THEN "dashboard_stop" ELSE "save_final"
    /\ Quiet
    /\ UNCHANGED <<cfgVars, tradeVars, sigVars, clockVars, loopVars, botVars, cycleVars, dashVars,
                   bcVars, perfLog, exc>>

\* await self.dashboard.stop(): every client is closed, the set cleared
\* and the runner cleaned up (dashboard_server.py:79-86)
DashboardStop ==
    /\ pc = "dashboard_stop"
    /\ dashRunning' = FALSE
    /\ clients' = {}
    /\ released' = released \cup {"dashboard"}
    /\ pc' = "save_final"
    /\ Quiet
    /\ UNCHANGED <<cfgVars, tradeVars, sigVars, clockVars, loopVars, botVars, cycleVars,
                   dashState, bcVars, perfLog, exc>>

\* self.trade_logger.save_performance({"status": "shutdown", ...}); an
\* exception that was propagating out of main's try block goes on.
SaveFinal ==
    /\ pc = "save_final"
    /\ perfLog' = Append(perfLog, [status |-> "shutdown",
                                   cycles |-> cycleCount])
    /\ pc' = IF exc THEN "failed" ELSE "done"
    /\ Quiet
    /\ UNCHANGED <<cfgVars, tradeVars, sigVars, clockVars, loopVars, botVars, cycleVars, dashVars,
                   bcVars, released, exc>>

\* ------------------------------------------------------------------------
\* Spec: the bot from start-up to exit
\* ------------------------------------------------------------------------

Next ==
    \/ StartBounded \/ StartRun \/ StartRunFails \/ StopSignal
    \/ TickOutside \/ TickSkip \/ TickFire \/ CycleReturn \/ LoopExit
    \/ StepRaises \/ CaptureWindowOpen \/ GetPrice \/ LogOracle
    \/ GetCandles \/ Analyze \/ LogStrategy \/ CanTrade \/ DiscoverMarkets
    \/ ScanArb \/ ArbLoop \/ ArbUp \/ ArbDown \/ ArbLog \/ GetTradeRecords
    \/ CheckHedge \/ Except \/ Finally \/ BuildRaises \/ BroadcastBegin
    \/ BroadcastSend \/ BroadcastEnd \/ BroadcastAbort
    \/ WsConnect \/ WsDisconnect
    \/ ShutdownBegin \/ ShutdownRaises \/ OracleClose \/ PolymarketClose
    \/ DashboardStop \/ SaveFinal

Spec == Init /\ [][Next]_vars

\* ------------------------------------------------------------------------
\* SpecPositions: build_dashboard_state applied to growing lists of trade
\* records
\* ------------------------------------------------------------------------

\* The trade records number at most MaxRecords.
MaxRecords == 54

\* The lists the sweep starts from grow to at most this length: every
\* pattern of resolved and unresolved records up to it.
MaxPattern == 3

RECURSIVE RecordPatterns(_)
RecordPatterns(n) ==
    IF n = 0 THEN {<<>>}
    ELSE LET shorter == RecordPatterns(n - 1)
         IN  shorter \cup {Append(rs, Rec(Len(rs) + 1, r)) :
                              rs \in {x \in shorter : Len(x) = n - 1},
                              r \in BOOLEAN}

PositionsInit ==
    /\ records \in RecordPatterns(MaxPattern)
    /\ lead = 13 /\ window = 5
    /\ now = 0
    /\ boundary = NextBoundary(now)
    /\ inWindow = FALSE
    /\ poll = 1
    /\ maxCycles = 0
    /\ dashboard = TRUE
    /\ enableArb = FALSE
    /\ enableHedge = FALSE
    /\ pc = "positions"
    /\ ConstructedBot
    /\ dashState = BuildDashboardState(cycleCount, lastConsensus, lastAnchor,
                                       lastDecision, riskState, records)

\* The snapshot is built from the records as they are now.
Rebuild ==
    dashState' = BuildDashboardState(cycleCount, lastConsensus, lastAnchor,
                                     lastDecision, riskState, records')

\* The execution collaborator creates a trade record on a successful
\* placement; the next snapshot is built.
RecordPlaced ==
    /\ pc = "positions"
    /\ Len(records) < MaxRecords
    /\ records' = Append(records, Rec(Len(records) + 1, FALSE))
    /\ Rebuild
    /\ Quiet
    /\ UNCHANGED <<cfgVars, sigVars, clockVars, pc, loopVars, botVars,
                   cycleVars, dashRunning, clients, bcVars, downVars>>

\* The resolution check resolves the oldest unresolved record; the next
\* snapshot is built.
RecordResolved ==
    /\ pc = "positions"
    /\ \E i \in 1 .. Len(records) :
          /\ ~records[i].is_resolved
          /\ \A j \in 1 .. (i - 1) : records[j].is_resolved
          /\ records' = [records EXCEPT ![i].is_resolved = TRUE]
    /\ Rebuild
    /\ Quiet
    /\ UNCHANGED <<cfgVars, sigVars, clockVars, pc, loopVars, botVars,
                   cycleVars, dashRunning, clients, bcVars, downVars>>

PositionsNext == RecordPlaced \/ RecordResolved

SpecPositions == PositionsInit /\ [][PositionsNext]_vars

\* ------------------------------------------------------------------------
\* Claims about the clock functions (checked under SpecClock)
\* ------------------------------------------------------------------------

GridSeconds == GridMinutes * SecondsPerMinute

\* The settlement boundary that follows t, counted on the 15-minute grid
\* directly: the least multiple of 900 s strictly greater than t.
GridBoundaryAfter(t) == ((t \div GridSeconds) + 1) * GridSeconds

\* A time of day, in seconds.
Clock(h, m, s) == h * SecondsPerHour + m * SecondsPerMinute + s

\* C7: for every time t, nextBoundary(t) lies on the 15-minute grid, is
\* strictly greater than t and at most 15 minutes after t, the hour
\* rollover included: 10:07:00 -> 10:15:00, 10:59:31 -> 11:00:00, and a t on
\* the grid maps to t + 15 min.
C7_NextBoundaryOnGrid ==
    /\ boundary % GridSeconds = 0
    /\ boundary > now
    /\ boundary <= now + GridSeconds
    /\ (now = Clock(10, 7, 0) => boundary = Clock(10, 15, 0))
    /\ (now = Clock(10, 59, 31) => boundary = Clock(11, 0, 0))
    /\ (now % GridSeconds = 0 => boundary = now + GridSeconds)

\* C7 witness: the hour rollover of the scenario has been evaluated.
C7_Witness == now = Clock(10, 59, 31) /\ boundary = Clock(11, 0, 0)

\* C8: inEntryWindow(now, leadSecs, windowSecs) is true exactly when
\* -windowSecs <= boundary - leadSecs - now <= 0, the boundary being the
\* next grid instant after now; with leadSecs = 13 and windowSecs = 5 it is
\* true 13 s before the boundary and false 19 s before it.
C8_InWindowIffSecsInRange ==
    LET b == GridBoundaryAfter(now)
        secs == b - lead - now
    IN  /\ inWindow <=> (-window <= secs /\ secs <= 0)
        /\ (lead = 13 /\ window = 5 /\ now = b - 13 => inWindow)
        /\ (lead = 13 /\ window = 5 /\ now = b - 19 => ~inWindow)

\* C8 witness: the scenario's first instant, 13 s before an hour boundary.
C8_Witness ==
    /\ lead = 13 /\ window = 5
    /\ now = Clock(11, 0, 0) - 13
    /\ inWindow

\* The times of the 15-minute period that ends at boundary b.
PeriodOf(b) == (b - GridSeconds) .. (b - 1)

\* C6 as stated: inEntryWindow is true on exactly one contiguous interval
\* per 15-minute period, of length windowSecs, which ends at the
\* lead-adjusted entry instant (boundary - leadSecs) and opens windowSecs
\* before it.
C6_WindowEndsAtEntryInstant ==
    LET b == GridBoundaryAfter(now)
    IN  inWindow <=> (b - lead - window <= now /\ now <= b - lead)

\* C6 amended: inEntryWindow is true on exactly one contiguous interval per
\* 15-minute period; it opens at the lead-adjusted entry instant
\* (boundary - leadSecs) and closes windowSecs after it (at
\* boundary - leadSecs + windowSecs, inclusive), or at the boundary when
\* that comes first.
C6_WindowOpensAtEntryInstant ==
    LET b == GridBoundaryAfter(now)
        opens == b - lead
        closes == IF b - lead + window < b THEN b - lead + window ELSE b - 1
    IN  /\ opens \in PeriodOf(b)
        /\ closes \in PeriodOf(b)
        /\ opens <= closes
        /\ inWindow <=> (opens <= now /\ now <= closes)

\* C6 witness: a time after the entry instant, inside the window.
C6_Witness ==
    /\ inWindow
    /\ now > GridBoundaryAfter(now) - lead
    /\ now = GridBoundaryAfter(now) - lead + window

\* ------------------------------------------------------------------------
\* Claims about the scheduler and the cycle (checked under Spec)
\* ------------------------------------------------------------------------

\* C1: the trading cycle is started at most once per entry window, for any
\* poll interval and cycle duration and in both loops: between two starts
\* of _trading_cycle there is always a tick that observed the clock outside
\* the entry window.
C1_AtMostOneStartPerWindow == startsSinceOutside <= 1

\* C1 witness: the bounded loop has started its second cycle, after ticks
\* inside the first window that started none.
C1_Witness ==
    /\ maxCycles = 2
    /\ cycleCount = 2
    /\ pc = "capture_window_open"
    /\ startsSinceOutside = 1

\* C2: at the end of every cycle attempt, in every run mode with the
\* dashboard enabled, a snapshot is built and pushed to the observers.
C2_SnapshotPushedEveryCycle ==
    (pc = "return" /\ dashboard) => pushes = 1

\* C3: no fault raised inside a trading cycle escapes _trading_cycle to
\* the scheduler loop: from every position inside the cycle the next step
\* is inside the cycle or back in the loop (its sleep, then the next tick),
\* with no exception propagating.
C3_NoFaultEscapes ==
    [][(pc \in CycleSteps)
          => (pc' \in (CycleSteps \cup {"loop"}) /\ exc' = FALSE)]_vars

\* C3 witness: the first cycle faulted before it stored a consensus, and a
\* later entry window has fired the second cycle, which got past its first
\* step.
C3_Witness ==
    /\ cycleCount = 2
    /\ pc = "get_price"
    /\ lastAnchor = 2
    /\ lastConsensus = 0
    /\ fault = "none"

\* The place_order calls of this cycle that are the directional order of
\* step 7, in the decided direction on the selected market.
DirectionalOrders ==
    {i \in 1 .. Len(orders) :
        /\ orders[i].kind = "directional"
        /\ orders[i].direction = lastDecision.direction
        /\ orders[i].market = market}

\* C4: when the body of a cycle with enough history, should_trade, a
\* permitting risk gate and a selected market (and no collaborator fault)
\* has ended, exactly one directional order has been placed, in the decided direction on the selected
\* market, unless the computed position size is <= 0.
C4_DirectionalOrderPlaced ==
    (pc = "finally" /\ market # 0 /\ fault # "collaborator")
        => (outcome = "zero_size" \/ Cardinality(DirectionalOrders) = 1)

\* C5: the body of a cycle that is not short-circuited goes on to the
\* resolution check and has persisted one performance record for the cycle
\* when it ends.
C5_PerformanceRecordPersisted ==
    (pc = "finally" /\ market # 0 /\ fault # "collaborator"
        /\ outcome # "zero_size")
        => Cardinality({i \in 1 .. Len(perfLog) :
                           /\ perfLog[i].status = "cycle"
                           /\ perfLog[i].cycles = cycleCount}) = 1

\* The cycles the sections of a snapshot were captured in.
SectionCycles(snapshot) ==
    {snapshot.oracle, snapshot.anchor, snapshot.strategy.cycle} \ {0}

\* C9: the snapshot pushed for a cycle in which a step raised is not mixed:
\* its oracle, anchor and strategy sections come from one and the same
\* cycle.  (That a snapshot is pushed at all is the statement of C2.)
C9_FaultSnapshotFromOneCycle ==
    (pc = "return" /\ fault # "none" /\ pushes = 1)
        => Cardinality(SectionCycles(dashState)) <= 1

\* C10: after a broadcast every connection whose send failed has been
\* removed from the observer set, every connection whose send succeeded is
\* still in it, and every observer connected since the start of the
\* broadcast was sent the snapshot or dropped as failed.
C10_BroadcastIsolatesFailures ==
    (pc = "return" /\ pushes = 1)
        => /\ bcDead \cap clients = {}
           /\ bcSent \subseteq clients
           /\ (bcStart \cap clients) \subseteq bcSent

\* C11: a connect or disconnect that happens while broadcast is suspended
\* at a send does not abort the broadcast, and every observer that was
\* connected when the broadcast started and is still connected and healthy
\* has been sent the snapshot.
C11_BroadcastSafeUnderInterleaving ==
    (pc = "return" /\ pushes = 1)
        => /\ ~bcAborted
           /\ ((bcStart \cap clients) \ bcDead) \subseteq bcSent

\* The performance records persisted for the cycle in progress.
CycleRecords ==
    {i \in 1 .. Len(perfLog) :
        perfLog[i].status = "cycle" /\ perfLog[i].cycles = cycleCount}

\* C12 as stated: a fault in the arbitrage pass or the hedge pass (a
\* collaborator call of those passes raises, after the market was selected)
\* does not prevent the directional execution and the performance snapshot
\* of the same cycle.
C12_PassFaultDoesNotAbort ==
    (pc = "finally" /\ fault = "collaborator" /\ market # 0)
        => /\ Cardinality(DirectionalOrders) = 1
           /\ Cardinality(CycleRecords) = 1

\* C12 amended: a fault in a step of the cycle, the arbitrage and hedge
\* passes included, ends the try block: once a step has faulted no further
\* step of the body runs and no further order is placed or logged in that
\* cycle; the cycle goes on with its except and finally clauses only.
C12_FaultEndsTheBody ==
    [][(fault # "none")
          => /\ pc \in {"except", "finally", "build", "broadcast", "return"}
             /\ pc' \notin BodySteps
             /\ orders' \in {orders, <<>>}
             /\ tradeLog' \in {tradeLog, <<>>}]_vars

\* C12 witness: the 'down' placement of an arbitrage pair raised after the
\* 'up' placement was issued.
C12_Witness ==
    /\ pc = "except"
    /\ fault = "collaborator"
    /\ Len(orders) = 1
    /\ orders[1].direction = "up"

\* The condition ids of a list of markets.
MarketIds(ms) == {ms[k].id : k \in 1 .. Len(ms)}

\* The two placements of one opportunity, in issue order.
ArbPair(id) == <<[kind |-> "arb", market |-> id, direction |-> "up"],
                 [kind |-> "arb", market |-> id, direction |-> "down"]>>

\* The placements due for a list of opportunities: a pair for each one
\* whose market is among ms, in the list's order.
RECURSIVE ArbOrdersFor(_, _)
ArbOrdersFor(opps, ms) ==
    IF opps = <<>> THEN <<>>
    ELSE (IF Head(opps) \in MarketIds(ms) THEN ArbPair(Head(opps)) ELSE <<>>)
         \o ArbOrdersFor(Tail(opps), ms)

\* The arb log entries due for a list of opportunities.
RECURSIVE ArbLogsFor(_, _)
ArbLogsFor(opps, ms) ==
    IF opps = <<>> THEN <<>>
    ELSE (IF Head(opps) \in MarketIds(ms)
          THEN <<[type |-> "arb", market |-> Head(opps)]>> ELSE <<>>)
         \o ArbLogsFor(Tail(opps), ms)

IsPrefix(a, b) == Len(a) <= Len(b) /\ SubSeq(b, 1, Len(a)) = a

\* The opportunities the arbitrage loop is done with.
ArbHandled == SubSeq(arbScanned, 1, Len(arbScanned) - Len(arbOpps))

\* C13 as stated: for every opportunity scan_arb returned, when the body of
\* the cycle has ended exactly two placements ('up' then 'down', on the
\* opportunity's market) have been issued and one arb log entry written.
C13_TwoPlacementsPerOpportunity ==
    (pc = "finally" /\ arbScanned # <<>>)
        => /\ Len(orders) = 2 * Len(arbScanned)
           /\ Len(tradeLog) = Len(arbScanned)
           /\ \A i \in 1 .. Len(arbScanned) :
                 /\ SubSeq(orders, 2 * i - 1, 2 * i) = ArbPair(arbScanned[i])
                 /\ tradeLog[i].market = arbScanned[i]

\* C13 amended: the opportunities are handled in the list's order; one whose
\* condition id is that of a tradeable market gets the 'up' placement, then
\* the 'down' placement, then one arb log entry; one whose market is not
\* among the tradeable markets gets no placement and no entry; a raise by a
\* placement or by the log call ends the pass there, and a pass that is not
\* cut short has handled every opportunity.
C13_ArbPairsInOrder ==
    (pc \in BodySteps \cup {"except", "finally"})
        => /\ tradeLog = ArbLogsFor(ArbHandled, tradeable)
           /\ IsPrefix(ArbOrdersFor(ArbHandled, tradeable), orders)
           /\ IsPrefix(orders, ArbOrdersFor(arbScanned, tradeable))
           /\ Len(orders) - 2 * Len(tradeLog) \in {0, 1, 2}
           /\ (pc = "arb_loop" => Len(orders) = 2 * Len(tradeLog))
           /\ (pc \in {"get_trade_records", "check_hedge"}
               \/ fault = "UnboundLocalError")
                 => /\ arbOpps = <<>>
                    /\ orders = ArbOrdersFor(arbScanned, tradeable)
                    /\ tradeLog = ArbLogsFor(arbScanned, tradeable)

\* C13 witness: the pass is over; the first opportunity's market was not
\* among the tradeable markets, the second got its pair and its entry.
C13_Witness ==
    /\ pc = "check_hedge"
    /\ arbScanned = <<9, 4>>
    /\ orders = ArbPair(4)
    /\ Len(tradeLog) = 1

\* The cycle in progress is one whose decision has should_trade = false.
HoldCycle ==
    /\ pc \in CycleSteps
    /\ lastDecision.cycle = cycleCount
    /\ ~lastDecision.should_trade

\* C15: in a cycle whose decision has should_trade = false no order is
\* placed, the risk gate can_trade is not called (nor any later step of the
\* body reached), and the snapshot pushed at the end of that cycle is this
\* cycle's and has strategy.should_trade = false.
C15_HoldPlacesNothing ==
    HoldCycle
        => /\ pc \in {"log_strategy", "except", "finally", "build",
                      "broadcast", "return"}
           /\ orders = <<>>
           /\ riskState = "unknown"
           /\ pushes = 1 => /\ dashState.cycle = cycleCount
                            /\ dashState.strategy.cycle = cycleCount
                            /\ dashState.strategy.should_trade = FALSE

\* C15 witness: the snapshot of a HOLD cycle has been pushed to an observer.
C15_Witness ==
    /\ HoldCycle
    /\ pc = "return"
    /\ pushes = 1
    /\ bcSent # {}
    /\ dashState.strategy.should_trade = FALSE

\* The cycle in progress is one in which the risk gate answered
\* (False, reason).
BlockedCycle ==
    /\ pc \in CycleSteps
    /\ riskState \notin {"unknown", RiskOk}

HeldConnections ==
    {"oracle", "polymarket"} \cup (IF dashboard THEN {"dashboard"} ELSE {})

\* C17: on every exit path, also when a release call fails, teardown has
\* released every held connection (oracle, execution client, observer
\* server) and then written exactly one final performance snapshot.
C17_TeardownReleasesAll ==
    (pc \in {"done", "failed"})
        => /\ HeldConnections \subseteq released
           /\ Cardinality({i \in 1 .. Len(perfLog) :
                              perfLog[i].status = "shutdown"}) = 1

\* C18: a stop signal is acted on between poll ticks only (teardown begins
\* from the loop, never from inside a cycle), and once the signal has been
\* delivered the loop, when it is next between ticks, leaves for teardown:
\* it takes no further tick and starts no further cycle.
C18_StopEndsTheLoop ==
    [][/\ (pc' = "shutdown" => pc \in {"main", "loop", "shutdown"})
       /\ (stopped /\ pc = "loop")
             => (now' = now /\ cycleCount' = cycleCount)]_vars

\* C19: cycles are strictly serialized: a cycle is started only from the
\* loop, when no cycle is in progress: the previous cycle has left its
\* failure boundary, snapshot build and push included, and returned.
C19_CyclesSerialized ==
    [][(cycleCount' # cycleCount)
          => /\ pc = "loop"
             /\ NoCycle
             /\ cycleCount' = cycleCount + 1
             /\ pc' = "capture_window_open"]_vars

\* C19 witness: the second cycle has started after the first one pushed its
\* snapshot to an observer and returned.
C19_Witness ==
    /\ cycleCount = 2
    /\ pc = "capture_window_open"
    /\ dashState.cycle = 1
    /\ clients # {}
    /\ NoCycle

\* C21: on the /ws channel an observer that connects is at once sent the
\* latest snapshot when a broadcast has stored one, and nothing when none
\* exists yet; a connection that either side has closed is no longer in the
\* observer set, the broadcast in progress does not come to it, and no
\* document is delivered to it.
C21_ConnectGetsLatestSnapshot ==
    /\ [](bcTodo \subseteq clients)
    /\ [][/\ \A ws \in clients' \ clients :
                /\ dashState' = dashState
                /\ sent' = IF dashState = NoState THEN NoMessage
                           ELSE Msg(ws, dashState)
          /\ \A ws \in clients \ clients' :
                ws \notin bcTodo' /\ sent'.to # ws
          /\ (sent' # NoMessage) => sent'.to \in clients']_vars

\* C21 witness: an observer has just connected, after the first broadcast
\* and between two cycles, and was sent that cycle's snapshot; the other
\* observer had closed its connection.
C21_Witness ==
    /\ dashState.cycle = 1
    /\ pc = "loop"
    /\ clients = {2}
    /\ sent = Msg(2, dashState)

\* C22: with a maximum cycle count N > 0 the scheduler runs at most N
\* cycles: a cycle is started only while fewer than N have completed and
\* the running flag is set; once N have run (or the flag was cleared by a
\* stop signal) the loop takes no further tick, starts no cycle and leaves
\* for teardown.  With N = 0 the loop leaves for teardown only when the
\* running flag was cleared, which only a stop signal does.
C22_BoundedRunStops ==
    /\ [](maxCycles > 0 => (cycleCount <= maxCycles /\ completed <= cycleCount))
    /\ [][/\ (cycleCount' # cycleCount)
                => (running /\ (maxCycles > 0 => completed < maxCycles))
          /\ (pc = "loop" /\ (~running \/ (maxCycles > 0
                                           /\ completed = maxCycles)))
                => (pc' \in {"loop", "shutdown"} /\ now' = now
                    /\ cycleCount' = cycleCount)
          /\ (pc = "loop" /\ pc' = "shutdown")
                => (~running \/ (maxCycles > 0 /\ completed = maxCycles))
          /\ (running /\ ~running') => (stopped' \/ pc = "shutdown")
          /\ (pc = "shutdown") => pc' = "oracle_close"]_vars

\* C22 witness: the bounded loop has run its one cycle and, with no stop
\* signal delivered and the next window still ahead, left for teardown.
C22_Witness ==
    /\ maxCycles = 1
    /\ completed = 1
    /\ cycleCount = 1
    /\ pc = "shutdown"
    /\ running /\ ~stopped
    /\ now < MaxClock - GridSeconds

\* The place_order calls of this cycle that belong to the arbitrage pass.
ArbOrders == {i \in 1 .. Len(orders) : orders[i].kind = "arb"}

\* C23: when the arbitrage flag is off the cycle performs no arbitrage scan
\* (the scan is not asked for and its loop not entered) and places no
\* arbitrage orders, and when the hedge flag is off the cycle performs no
\* hedge check (the statement of the hedge check is not executed) and
\* places no hedge orders.
C23_PassesRunOnlyIfEnabled ==
    /\ ~enableArb
          => /\ pc \notin {"arb_loop", "arb_up", "arb_down", "arb_log"}
             /\ arbScanned = <<>>
             /\ ArbOrders = {}
    /\ ~enableHedge
          => /\ pc # "check_hedge"
             /\ fault # "UnboundLocalError"
             /\ {i \in 1 .. Len(orders) : orders[i].kind = "hedge"} = {}

\* C24: when the history fetch returns fewer than 30 candles the cycle ends
\* there: the strategy is not invoked, the risk gate is not asked, no market
\* discovery happens and no order is placed; with 30 or more candles the
\* strategy is invoked exactly once (when analyze has returned), with that
\* history, the cycle's consensus price and the cycle's anchor open price.
C24_ShortHistorySkipsCycle ==
    (pc \in BodySteps \cup {"except", "finally"} /\ candles # 0)
        => /\ (candles < MinCandles)
                 => /\ pc = "finally"
                    /\ outcome = "skipped" /\ fault = "none"
                    /\ analyzed = <<>>
                    /\ lastDecision.cycle # cycleCount
                    /\ riskState = "unknown"
                    /\ discovered = <<>>
                    /\ orders = <<>>
           /\ (candles >= MinCandles)
                 => /\ Len(analyzed) <= 1
                    /\ (pc \notin {"get_candles", "analyze", "except",
                                   "finally"}) => Len(analyzed) = 1
                    /\ \A i \in 1 .. Len(analyzed) :
                          analyzed[i] = [candles |-> candles,
                                         price |-> cycleCount,
                                         open_price |-> cycleCount]

\* C24 witness: the second cycle was skipped for 29 candles; the strategy
\* was invoked in the first cycle, on a full history, and not in this one.
C24_Witness ==
    /\ cycleCount = 2
    /\ pc = "finally"
    /\ candles = MinCandles - 1
    /\ outcome = "skipped"
    /\ analyzed = <<>>
    /\ lastDecision.cycle = 1

\* A discovered market qualifies for selection.
IsCandidate(m) == m.is_tradeable /\ m.liquidity >= MinLiquidity

\* C25: market selection considers exactly the discovered markets that are
\* tradeable and have liquidity >= the minimum-liquidity threshold, and
\* selects one whose liquidity is maximal among them; when that candidate
\* set is empty the cycle ends with no arbitrage scan, no hedge check and
\* no order placed.
C25_SelectsMaxLiquidityCandidate ==
    (pc \in BodySteps \cup {"except", "finally"} /\ discovered # <<>>)
        => LET candidates == SelectSeq(discovered[1], IsCandidate)
           IN  /\ Len(discovered) = 1
               /\ tradeable = candidates
               /\ (candidates # <<>>)
                     => \E k \in 1 .. Len(candidates) :
                           /\ market = candidates[k].id
                           /\ \A j \in 1 .. Len(candidates) :
                                 candidates[j].liquidity
                                    <= candidates[k].liquidity
               /\ (candidates = <<>>)
                     => /\ pc = "finally"
                        /\ outcome = "no_market"
                        /\ market = 0
                        /\ arbScanned = <<>>
                        /\ fault = "none"
                        /\ orders = <<>>

\* C25 witness: of four discovered markets, one below the threshold and one
\* not tradeable, the more liquid of the two candidates was selected.
C25_Witness ==
    /\ pc = "scan_arb"
    /\ Len(discovered) = 1 /\ Len(discovered[1]) = 4
    /\ Len(tradeable) = 2
    /\ market = 4

\* ------------------------------------------------------------------------
\* Claims about the snapshot's positions (checked under SpecPositions)
\* ------------------------------------------------------------------------

\* The trade ids of a list of position entries.
PosIds(ps) == {ps[k].id : k \in 1 .. Len(ps)}

\* The entries of a list are distinct and in record order (trade ids are
\* positions in the record list).
InRecordOrder(ps) == \A k, l \in 1 .. Len(ps) : k < l => ps[k].id < ps[l].id

\* The ids of the resolved records.
ResolvedIds == {records[i].id : i \in {j \in 1 .. Len(records) :
                                          records[j].is_resolved}}

\* C26: in every snapshot positions.open contains exactly the unresolved
\* trade records and positions.closed contains only resolved trade records,
\* namely the most recent 50 of them in record order (all of them when there
\* are at most 50); no trade record appears in both lists.
C26_PositionsPartitionRecords ==
    LET open == dashState.positions.open
        closed == dashState.positions.closed
        allIds == {records[i].id : i \in 1 .. Len(records)}
    IN  /\ PosIds(open) = allIds \ ResolvedIds
        /\ InRecordOrder(open)
        /\ PosIds(closed) \subseteq ResolvedIds
        /\ InRecordOrder(closed)
        /\ Len(closed) = IF Cardinality(ResolvedIds) <= 50
                         THEN Cardinality(ResolvedIds) ELSE 50
        /\ \A id \in ResolvedIds \ PosIds(closed) :
              \A shown \in PosIds(closed) : id < shown
        /\ PosIds(open) \cap PosIds(closed) = {}

\* C26 witness: more than 50 records are resolved and some are not; the
\* oldest resolved record is no longer listed.
C26_Witness ==
    /\ Cardinality(ResolvedIds) > 50
    /\ Len(dashState.positions.closed) = 50
    /\ Len(dashState.positions.open) > 0
    /\ 1 \in ResolvedIds
    /\ 1 \notin PosIds(dashState.positions.closed)

\* ------------------------------------------------------------------------
\* Further claims about the scheduler and the cycle (checked under Spec)
\* ------------------------------------------------------------------------

\* C27: after every poll tick the fired flag equals window membership of
\* that tick: whenever the loop is between ticks the flag is false if the
\* last tick observed the clock outside the entry window and true if it
\* observed it inside, whatever the outcome of the cycle run on that tick,
\* so a failed cycle is never retried within the same window.
C27_FlagEqualsWindowMembership ==
    /\ [](pc = "loop" => traded = inWindow)
    /\ [][(pc = "return" /\ pc' = "loop") => traded']_vars

\* C27 witness: the first cycle faulted at its first step and returned; the
\* flag is set and the clock is still inside the same window.
C27_Witness ==
    /\ pc = "loop"
    /\ cycleCount = 1
    /\ lastAnchor = NoAnchor
    /\ traded /\ inWindow
    /\ IsInEntryWindow(now, lead, window)
    /\ boundary = NextBoundary(now)

\* The snapshot the finally clause builds and passes to broadcast.
BuiltSnapshot ==
    BuildDashboardState(cycleCount, lastConsensus, lastAnchor, lastDecision,
                        riskState, records)

\* C28: the stored snapshot is replaced wholesale and never partially
\* updated: the document served by GET /state and sent on connect is empty
\* until the first broadcast and changes only when broadcast is called, to
\* exactly the snapshot passed to that call, before any observer push of
\* that broadcast; every document an observer is sent is the stored one.
C28_StoredSnapshotReplacedWhole ==
    /\ []((dashState = NoState) <=> (HandleState.cycle = 0))
    /\ [][/\ (pc = "build" /\ pc' = "broadcast")
                => /\ HandleState' = BuiltSnapshot
                   /\ sent' = NoMessage /\ bcSent' = {} /\ bcDead' = {}
          /\ (HandleState' # HandleState)
                => (pc = "build" /\ pc' = "broadcast")
          /\ (sent' # NoMessage)
                => (sent'.doc = HandleState
                    /\ HandleState' = HandleState)]_vars

\* C28 witness: the second broadcast found two observers and both pushes
\* failed; the stored document is the second cycle's snapshot.
C28_Witness ==
    /\ pc = "return"
    /\ cycleCount = 2
    /\ pushes = 1
    /\ bcStart = Conns
    /\ bcSent = {}
    /\ bcDead = bcStart
    /\ HandleState.cycle = 2

\* C29: every entry window in which at least one poll tick falls fires
\* exactly one cycle, for any cycle duration: when the loop is between
\* ticks and its last tick was inside an entry window, a cycle has been
\* started for that window (the one before the boundary the tick computed),
\* and no more than one, also when the previous cycle was still running
\* when its own window closed or overran into this window.
C29_EveryTickedWindowFires ==
    (pc = "loop" /\ inWindow)
        => (firedFor = boundary /\ startsSinceOutside = 1)

\* C30: the cycle counter increases by exactly one per cycle attempt (each
\* start of _trading_cycle from the loop), including attempts that
\* short-circuit or fault, and never otherwise; the 'cycle' field of each
\* pushed snapshot equals the number of attempts started so far, so
\* successive broadcasts carry strictly increasing cycle numbers.
C30_CycleCounterCountsAttempts ==
    /\ [](dashState.cycle <= cycleCount)
    /\ [][/\ (pc = "loop" /\ pc' \in CycleSteps)
                => cycleCount' = cycleCount + 1
          /\ (cycleCount' # cycleCount)
                => (pc = "loop" /\ pc' \in CycleSteps
                    /\ cycleCount' = cycleCount + 1)
          /\ (pc = "build" /\ pc' = "broadcast")
                => /\ dashState'.cycle = cycleCount
                   /\ dashState'.cycle > dashState.cycle
          /\ (pc = "broadcast" /\ sent' # NoMessage)
                => sent'.doc.cycle = cycleCount]_vars

\* C30 witness: the first attempt was short-circuited before the strategy
\* ran and the second one faulted; the second snapshot, numbered 2, has
\* just been pushed to an observer.
C30_Witness ==
    /\ cycleCount = 2
    /\ pc = "broadcast"
    /\ fault = "collaborator"
    /\ lastDecision = NoDecision
    /\ pushes = 1
    /\ dashState.cycle = 2
    /\ sent.to \in bcSent /\ sent.doc.cycle = 2

====
